---- MODULE Spec2Model ----
(***************************************************************************)
(* Model of anchor-kit's scaled-integer DecimalUtils                       *)
(* (src/unnamed/part_006, lines 1-231) and of divide and applyFee of its   *)
(* big.js variant (src/src/utils/decimal.ts), followed by the two error    *)
(* handlers, the JSON web tokens of CryptoUtils, the idempotency header    *)
(* and the memo ids of StellarUtils and ValidationUtils.  Each component   *)
(* has its own specification; the variables of the others stay at rest.    *)
(*                                                                         *)
(* A JavaScript string is a sequence of one-character strings, so that     *)
(* indexOf, replace, slice, padStart, trim and the regular expression of   *)
(* fromString are modelled by what they do to the characters.  A bigint is *)
(* an Integer; the model explores magnitudes up to Limit and an operation  *)
(* whose intermediate values would leave that range is not explored.       *)
(* Operands are strings: the `number` branch of toDecimalValue (line 21)   *)
(* only converts to a string first and is not modelled.                    *)
(***************************************************************************)
EXTENDS Integers, Sequences, FiniteSets, TLC

VARIABLES a, b, precision, op, res, pc, frames, err, NODE_ENV,
          token, secret, now, issued, headers, memo

vars == <<a, b, precision, op, res, pc, frames, err, NODE_ENV,
          token, secret, now, issued, headers, memo>>

\* the arguments of a call
args == <<a, b, precision>>

\* the state of the other components, which a call of DecimalUtils leaves alone
others == <<frames, err, NODE_ENV, token, secret, now, issued, headers, memo>>

----------------------------------------------------------------------------
(* Bounds of the explored inputs *)

\* longest whole part (digits before the point) of a generated operand
MaxWhole == 1
\* longest fractional part of a generated operand of the arithmetic operations
MaxFrac == 1
\* longest run of zeros put in front of the fractional digits of a parsed string
MaxPad == 8
\* longest arbitrary character string handed to parsing and validation
MaxLen == 4
\* largest target precision handed to divide
MaxPrecision == 3
\* number of concurrent callers
NumCallers == 2
\* latest time of the clock, in seconds
MaxTime == 3
\* longest short text handed to generateMemo
MaxMemoLen == 3

DigitChars == {"0", "1", "3"}
AllDigitChars == {"0", "1", "2", "3", "4", "5", "6", "7", "8", "9"}
OtherChars == {".", "-", " ", "a"}

----------------------------------------------------------------------------
(* Integer helpers *)

Abs(x) == IF x < 0 THEN -x ELSE x

Min(x, y) == IF x < y THEN x ELSE y

Max(x, y) == IF x > y THEN x ELSE y

RECURSIVE Pow10(_)
Pow10(n) == IF n = 0 THEN 1 ELSE 10 * Pow10(n - 1)

\* largest magnitude the model explores (bigint itself is unbounded)
Limit == Pow10(9)

\* x * 10^n stays within Limit
FitsPow10(x, n) == n <= 9 /\ Abs(x) <= Limit \div Pow10(n)

\* x * y stays within Limit
FitsMul(x, y) == y = 0 \/ Abs(x) <= Limit \div Abs(y)

\* bigint `/`: the quotient truncated toward zero
TruncDiv(x, y) ==
    IF (x < 0) = (y < 0) THEN Abs(x) \div Abs(y) ELSE -(Abs(x) \div Abs(y))

\* bigint `%`: the remainder, which has the sign of the dividend
TruncRem(x, y) == x - y * TruncDiv(x, y)

----------------------------------------------------------------------------
(* String helpers: the JavaScript string methods the code calls *)

DigitVal(c) ==
    CASE c = "0" -> 0 [] c = "1" -> 1 [] c = "2" -> 2 [] c = "3" -> 3
      [] c = "4" -> 4 [] c = "5" -> 5 [] c = "6" -> 6 [] c = "7" -> 7
      [] c = "8" -> 8 [] c = "9" -> 9

DigitChar(d) ==
    CASE d = 0 -> "0" [] d = 1 -> "1" [] d = 2 -> "2" [] d = 3 -> "3"
      [] d = 4 -> "4" [] d = 5 -> "5" [] d = 6 -> "6" [] d = 7 -> "7"
      [] d = 8 -> "8" [] d = 9 -> "9"

IsDigit(c) == c \in AllDigitChars

AllDigits(s) == \A i \in 1..Len(s) : IsDigit(s[i])

\* str.indexOf(c): 0-based index of the first occurrence, -1 when absent
IndexOf(s, c) ==
    IF \E i \in 1..Len(s) : s[i] = c
    THEN (CHOOSE i \in 1..Len(s) : s[i] = c /\ \A j \in 1..(i - 1) : s[j] # c) - 1
    ELSE -1

\* str.slice(0, n) for n >= 0
Slice0(s, n) == SubSeq(s, 1, Min(n, Len(s)))

\* str.replace(c, ''): removes the first occurrence only
RemoveFirst(s, c) ==
    LET i == IndexOf(s, c)
    IN  IF i = -1 THEN s ELSE SubSeq(s, 1, i) \o SubSeq(s, i + 2, Len(s))

\* str.padStart(n, c)
RECURSIVE PadStart(_, _, _)
PadStart(s, n, c) == IF Len(s) >= n THEN s ELSE PadStart(<<c>> \o s, n, c)

\* str.replace(/0+$/, '')
RECURSIVE StripTrailingZeros(_)
StripTrailingZeros(s) ==
    IF Len(s) > 0 /\ s[Len(s)] = "0"
    THEN StripTrailingZeros(SubSeq(s, 1, Len(s) - 1))
    ELSE s

\* str.trim(), with the blank as the only whitespace character
RECURSIVE TrimStart(_)
TrimStart(s) == IF Len(s) > 0 /\ s[1] = " " THEN TrimStart(Tail(s)) ELSE s

RECURSIVE TrimEnd(_)
TrimEnd(s) ==
    IF Len(s) > 0 /\ s[Len(s)] = " " THEN TrimEnd(SubSeq(s, 1, Len(s) - 1)) ELSE s

Trim(s) == TrimEnd(TrimStart(s))

\* value of a digit string, or -1 when it leaves the explored range
RECURSIVE DigitsToNat(_, _)
DigitsToNat(s, acc) ==
    IF acc = -1 THEN -1
    ELSE IF s = <<>> THEN acc
    ELSE IF acc > (Limit - 9) \div 10 THEN -1
    ELSE DigitsToNat(Tail(s), 10 * acc + DigitVal(Head(s)))

\* bigint.toString() of a non-negative value
RECURSIVE NatToString(_)
NatToString(n) ==
    IF n < 10 THEN <<DigitChar(n)>>
    ELSE NatToString(n \div 10) \o <<DigitChar(n % 10)>>

\* bigint.toString()
BigIntToString(n) == IF n < 0 THEN <<"-">> \o NatToString(-n) ELSE NatToString(n)

----------------------------------------------------------------------------
(* Outcomes of a call *)

\* a returned string
Ok(s) == [kind |-> "ok", str |-> s, num |-> 0, scale |-> 0]

\* a returned number
OkNum(n) == [kind |-> "ok", str |-> <<>>, num |-> n, scale |-> 0]

\* a returned DecimalValue {value, scale}
OkDec(v, sc) == [kind |-> "ok", str |-> <<>>, num |-> v, scale |-> sc]

\* a thrown exception, named by its message (or its class, for a SyntaxError)
Throw(what) == [kind |-> what, str |-> <<>>, num |-> 0, scale |-> 0]

\* the call is outside the magnitudes the model explores
OutOfRange == [kind |-> "range", str |-> <<>>, num |-> 0, scale |-> 0]

NoResult == [kind |-> "none", str |-> <<>>, num |-> 0, scale |-> 0]

\* BigInt(s): surrounding whitespace is ignored, the empty string is 0n, an
\* optionally signed run of decimal digits is its value, anything else throws
\* a SyntaxError
BigIntOf(s) ==
    LET t == Trim(s)
        neg == Len(t) > 0 /\ t[1] = "-"
        digits == IF neg THEN Tail(t) ELSE t
        n == DigitsToNat(digits, 0)
    IN  IF t = <<>> THEN [kind |-> "ok", value |-> 0]
        ELSE IF digits = <<>> \/ ~AllDigits(digits) THEN [kind |-> "SyntaxError", value |-> 0]
        ELSE IF n = -1 THEN [kind |-> "range", value |-> 0]
        ELSE [kind |-> "ok", value |-> IF neg THEN -n ELSE n]

----------------------------------------------------------------------------
(* DecimalUtils *)

\* toDecimalValue with scale = fracLen, without the cap Math.min(fracLen, 7)
toDecimalValue_Uncapped(str) ==
    LET dotIndex == IndexOf(str, ".")
        fracLen == Len(str) - dotIndex - 1
        scale == IF dotIndex # -1 THEN fracLen ELSE 0
        sliced == IF dotIndex # -1
                  THEN Slice0(RemoveFirst(str, "."), fracLen + scale)
                  ELSE str
        valueStr == PadStart(sliced, scale, "0")
        big == BigIntOf(IF valueStr = <<>> THEN <<"0">> ELSE valueStr)
    IN  [kind |-> big.kind, value |-> big.value, scale |-> scale]

\* toDecimalValue(input) for a string input
toDecimalValue(str) ==
    LET dotIndex == IndexOf(str, ".")
        fracLen == Len(str) - dotIndex - 1
        scale == IF dotIndex # -1 THEN Min(fracLen, 7) ELSE 0
        sliced == IF dotIndex # -1
                  THEN Slice0(RemoveFirst(str, "."), fracLen + scale)
                  ELSE str
        valueStr == PadStart(sliced, scale, "0")
        big == BigIntOf(IF valueStr = <<>> THEN <<"0">> ELSE valueStr)
    IN  [kind |-> big.kind, value |-> big.value, scale |-> scale]

\* value / 10^scale and value % 10^scale in bigint arithmetic; beyond the
\* explored range 10^scale exceeds every explored magnitude
WholeOf(value, scale) == IF scale > 9 THEN 0 ELSE TruncDiv(value, Pow10(scale))

FractionOf(value, scale) == IF scale > 9 THEN value ELSE TruncRem(value, Pow10(scale))

\* fromBigInt without the removal of trailing zeros
fromBigInt_KeepZeros(value, scale) ==
    IF scale = 0 THEN BigIntToString(value)
    ELSE BigIntToString(WholeOf(value, scale)) \o <<".">>
            \o PadStart(BigIntToString(FractionOf(value, scale)), scale, "0")

\* fromBigInt(value, scale)
fromBigInt(value, scale) ==
    IF scale = 0 THEN BigIntToString(value)
    ELSE LET whole == WholeOf(value, scale)
             fraction == FractionOf(value, scale)
             fractionStr ==
                 StripTrailingZeros(PadStart(BigIntToString(fraction), scale, "0"))
         IN  IF fractionStr = <<>> THEN BigIntToString(whole)
             ELSE BigIntToString(whole) \o <<".">> \o fractionStr

\* the outcome when parsing an operand did not give a value: the exception of
\* the first operand that throws
OperandFailure(decA, decB) ==
    IF decA.kind # "ok"
    THEN (IF decA.kind = "range" THEN OutOfRange ELSE Throw(decA.kind))
    ELSE (IF decB.kind = "range" THEN OutOfRange ELSE Throw(decB.kind))

\* the alignment with the second magnitude scaled by the first operand's
\* difference (scaleDiff used where scaleDiffB belongs)
Aligned_SameDiff(decA, decB) ==
    LET maxScale == Max(decA.scale, decB.scale)
        scaleDiff == maxScale - decA.scale
    IN  [fits |-> FitsPow10(decA.value, scaleDiff) /\ FitsPow10(decB.value, scaleDiff),
         maxScale |-> maxScale,
         valueA |-> IF FitsPow10(decA.value, scaleDiff)
                    THEN decA.value * Pow10(scaleDiff) ELSE 0,
         valueB |-> IF FitsPow10(decB.value, scaleDiff)
                    THEN decB.value * Pow10(scaleDiff) ELSE 0]

\* the two magnitudes brought to maxScale = max(decA.scale, decB.scale)
Aligned(decA, decB) ==
    LET maxScale == Max(decA.scale, decB.scale)
        scaleDiff == maxScale - decA.scale
        scaleDiffB == maxScale - decB.scale
    IN  [fits |-> FitsPow10(decA.value, scaleDiff) /\ FitsPow10(decB.value, scaleDiffB),
         maxScale |-> maxScale,
         valueA |-> IF FitsPow10(decA.value, scaleDiff)
                    THEN decA.value * Pow10(scaleDiff) ELSE 0,
         valueB |-> IF FitsPow10(decB.value, scaleDiffB)
                    THEN decB.value * Pow10(scaleDiffB) ELSE 0]

\* add(a, b)
add(x, y) ==
    LET decA == toDecimalValue(x)
        decB == toDecimalValue(y)
        al == Aligned(decA, decB)
    IN  IF decA.kind # "ok" \/ decB.kind # "ok" THEN OperandFailure(decA, decB)
        ELSE IF ~al.fits THEN OutOfRange
        ELSE Ok(fromBigInt(al.valueA + al.valueB, al.maxScale))

\* subtract(a, b)
subtract(x, y) ==
    LET decA == toDecimalValue(x)
        decB == toDecimalValue(y)
        al == Aligned(decA, decB)
    IN  IF decA.kind # "ok" \/ decB.kind # "ok" THEN OperandFailure(decA, decB)
        ELSE IF ~al.fits THEN OutOfRange
        ELSE Ok(fromBigInt(al.valueA - al.valueB, al.maxScale))

\* multiply(a, b)
multiply(x, y) ==
    LET decA == toDecimalValue(x)
        decB == toDecimalValue(y)
    IN  IF decA.kind # "ok" \/ decB.kind # "ok" THEN OperandFailure(decA, decB)
        ELSE IF ~FitsMul(decA.value, decB.value) THEN OutOfRange
        ELSE Ok(fromBigInt(decA.value * decB.value, decA.scale + decB.scale))

\* divide(a, b)
divide(x, y) ==
    LET decA == toDecimalValue(x)
        decB == toDecimalValue(y)
        scale == 7
    IN  IF decA.kind # "ok" \/ decB.kind # "ok" THEN OperandFailure(decA, decB)
        ELSE IF decB.value = 0 THEN Throw("Division by zero")
        ELSE IF ~FitsPow10(decA.value, scale) THEN OutOfRange
        ELSE Ok(fromBigInt(TruncDiv(decA.value * Pow10(scale), decB.value), scale))

\* applyFee(amount, feePercent)
applyFee(amount, feePercent) ==
    LET product == multiply(amount, feePercent)
    IN  IF product.kind # "ok" THEN product
        ELSE divide(product.str, <<"1", "0", "0">>)

\* the pattern without its end anchor, /^-?\d*\.?\d+/: a matching prefix suffices
MatchesDecimalPattern_Unanchored(s) ==
    LET t == IF Len(s) > 0 /\ s[1] = "-" THEN Tail(s) ELSE s
    IN  \E k \in 0..Len(t), e \in 0..Len(t) :
            LET lead == SubSeq(t, 1, k)
                rest == SubSeq(t, k + 1, e)
                tail == IF Len(rest) > 0 /\ rest[1] = "." THEN Tail(rest) ELSE rest
            IN  AllDigits(lead) /\ Len(tail) >= 1 /\ AllDigits(tail)

\* /^-?\d*\.?\d+$/.test(s)
MatchesDecimalPattern(s) ==
    LET t == IF Len(s) > 0 /\ s[1] = "-" THEN Tail(s) ELSE s
    IN  \E k \in 0..Len(t) :
            LET lead == SubSeq(t, 1, k)
                rest == SubSeq(t, k + 1, Len(t))
                tail == IF Len(rest) > 0 /\ rest[1] = "." THEN Tail(rest) ELSE rest
            IN  AllDigits(lead) /\ Len(tail) >= 1 /\ AllDigits(tail)

\* fromString(str)
fromString(str) ==
    LET trimmed == Trim(str)
    IN  IF ~MatchesDecimalPattern(trimmed) THEN Throw("Invalid decimal format")
        ELSE Ok(trimmed)

\* compare with `<=` in place of `<` in its first test
compare_LessOrEqual(x, y) ==
    LET decA == toDecimalValue(x)
        decB == toDecimalValue(y)
        al == Aligned(decA, decB)
    IN  IF decA.kind # "ok" \/ decB.kind # "ok" THEN OperandFailure(decA, decB)
        ELSE IF ~al.fits THEN OutOfRange
        ELSE IF al.valueA <= al.valueB THEN OkNum(-1)
        ELSE IF al.valueA > al.valueB THEN OkNum(1)
        ELSE OkNum(0)

\* compare(a, b)
compare(x, y) ==
    LET decA == toDecimalValue(x)
        decB == toDecimalValue(y)
        al == Aligned(decA, decB)
    IN  IF decA.kind # "ok" \/ decB.kind # "ok" THEN OperandFailure(decA, decB)
        ELSE IF ~al.fits THEN OutOfRange
        ELSE IF al.valueA < al.valueB THEN OkNum(-1)
        ELSE IF al.valueA > al.valueB THEN OkNum(1)
        ELSE OkNum(0)

----------------------------------------------------------------------------
(* The big.js variant of DecimalUtils (src/src/utils/decimal.ts).  big.js is  *)
(* used with its defaults: quotients are kept to 20 decimal places and        *)
(* rounding is half-up (away from zero on a tie).                             *)

\* new Big(s) for a string without exponent: optional '-', then digits with an
\* optional '.' and digits, or '.' and digits; every fractional digit is kept
BigOf(s) ==
    LET t == IF Len(s) > 0 /\ s[1] = "-" THEN Tail(s) ELSE s
        dot == IndexOf(t, ".")
        whole == IF dot = -1 THEN t ELSE SubSeq(t, 1, dot)
        frac == IF dot = -1 THEN <<>> ELSE SubSeq(t, dot + 2, Len(t))
        n == DigitsToNat(whole \o frac, 0)
        neg == Len(s) > 0 /\ s[1] = "-"
    IN  IF ~AllDigits(whole) \/ ~AllDigits(frac) \/ (whole = <<>> /\ frac = <<>>)
        THEN [kind |-> "[big.js] Invalid number", value |-> 0, scale |-> 0, neg |-> FALSE]
        ELSE IF n = -1 THEN [kind |-> "range", value |-> 0, scale |-> 0, neg |-> FALSE]
        ELSE [kind |-> "ok", value |-> n, scale |-> Len(frac), neg |-> neg]

\* the digits of n with the point sc places from the right, as toFixed(sc)
\* prints them: exactly sc fractional digits
FixedDigits(n, sc) ==
    LET d == PadStart(NatToString(n), sc + 1, "0")
    IN  IF sc = 0 THEN d
        ELSE SubSeq(d, 1, Len(d) - sc) \o <<".">> \o SubSeq(d, Len(d) - sc + 1, Len(d))

\* the digits of n with the point sc places from the right, as toFixed()
\* prints an exact value: no trailing fractional zeros, no bare point
ExactDigits(n, sc) ==
    LET d == PadStart(NatToString(n), sc + 1, "0")
        frac == StripTrailingZeros(SubSeq(d, Len(d) - sc + 1, Len(d)))
    IN  IF frac = <<>> THEN SubSeq(d, 1, Len(d) - sc)
        ELSE SubSeq(d, 1, Len(d) - sc) \o <<".">> \o frac

\* DecimalUtils.divide(a, b, precision) = new Big(a).div(b).toFixed(precision),
\* with dp the value of precision
Big_divide(x, y, dp) ==
    LET A == BigOf(x)
        B == BigOf(y)
        fits == /\ FitsPow10(A.value, B.scale + dp)
                /\ FitsPow10(B.value, A.scale)
        dividend == A.value * Pow10(B.scale + dp)
        divisor == B.value * Pow10(A.scale)
        quotient == dividend \div divisor
        remainder == dividend % divisor
        rounded == IF 2 * remainder >= divisor THEN quotient + 1 ELSE quotient
        sign == IF A.neg # B.neg /\ A.value # 0 THEN <<"-">> ELSE <<>>
    IN  IF A.kind = "range" THEN OutOfRange
        ELSE IF A.kind # "ok" THEN Throw(A.kind)
        ELSE IF B.kind = "range" THEN OutOfRange
        ELSE IF B.kind # "ok" THEN Throw(B.kind)
        ELSE IF B.value = 0 THEN Throw("[big.js] Division by zero")
        ELSE IF ~fits THEN OutOfRange
        ELSE Ok(sign \o FixedDigits(rounded, dp))

\* DecimalUtils.applyFee(amount, feePercentage) =
\* new Big(amount).times(new Big(1).plus(new Big(feePercentage).div(100))).toFixed();
\* feePercentage is given by its decimal text
Big_applyFee(amount, feePercentage) ==
    LET A == BigOf(amount)
        F == BigOf(feePercentage)
        fits == /\ FitsPow10(1, F.scale + 2)
                /\ FitsMul(A.value, Pow10(F.scale + 2) + F.value)
        factor == IF F.neg THEN Pow10(F.scale + 2) - F.value
                  ELSE Pow10(F.scale + 2) + F.value
        product == A.value * Abs(factor)
        sign == IF A.neg # (factor < 0) /\ product # 0 THEN <<"-">> ELSE <<>>
    IN  IF A.kind = "range" THEN OutOfRange
        ELSE IF A.kind # "ok" THEN Throw(A.kind)
        ELSE IF F.kind = "range" THEN OutOfRange
        ELSE IF F.kind # "ok" THEN Throw(F.kind)
        ELSE IF ~fits THEN OutOfRange
        ELSE Ok(sign \o ExactDigits(product, A.scale + F.scale + 2))

----------------------------------------------------------------------------
(* Inputs *)

\* all strings of exactly n characters of the set chars
RECURSIVE StringsOfLen(_, _)
StringsOfLen(chars, n) ==
    IF n = 0 THEN {<<>>}
    ELSE {<<c>> \o s : c \in chars, s \in StringsOfLen(chars, n - 1)}

StringsUpTo(chars, n) == UNION {StringsOfLen(chars, k) : k \in 0..n}

RECURSIVE Zeros(_)
Zeros(n) == IF n = 0 THEN <<>> ELSE <<"0">> \o Zeros(n - 1)

Signs == {<<>>, <<"-">>}

Wholes == StringsUpTo(DigitChars, MaxWhole) \ {<<>>}

Fracs == StringsUpTo(DigitChars, MaxFrac) \ {<<>>}

\* strings of the grammar: optional '-', whole digits, optionally '.' and
\* fractional digits
ValidOperands ==
    {sg \o w : sg \in Signs, w \in Wholes}
      \cup {sg \o w \o <<".">> \o f : sg \in Signs, w \in Wholes, f \in Fracs}

\* the malformed strings the documentation and the tests name
Malformed ==
    {<<>>, <<"a", "b", "c">>, <<"1", ".", "2", ".", "3">>, <<".">>, <<"-">>}

\* operands of the arithmetic operations
Operands == ValidOperands \cup Malformed

\* valid operands without a sign
PlainOperands ==
    Wholes \cup {w \o <<".">> \o f : w \in Wholes, f \in Fracs}

\* valid operands with a blank in front, behind, or both
PaddedOperands ==
    {<<" ">> \o s : s \in ValidOperands}
      \cup {s \o <<" ">> : s \in ValidOperands}
      \cup {<<" ">> \o s \o <<" ">> : s \in ValidOperands}

\* strings with up to MaxPad + MaxFrac fractional digits
LongFracInputs ==
    {sg \o w \o <<".">> \o Zeros(n) \o f :
        sg \in Signs, w \in Wholes, n \in 1..MaxPad, f \in Fracs}

\* unsigned amounts with a run of zeros in front of the fractional digits
FineAmounts ==
    {w \o <<".">> \o Zeros(n) \o f : w \in Wholes, n \in 1..MaxPad, f \in Fracs}

\* strings handed to parsing and validation
ParseInputs ==
    ValidOperands \cup Malformed \cup LongFracInputs
      \cup StringsUpTo(DigitChars \cup OtherChars, MaxLen)

----------------------------------------------------------------------------
(* The calls *)

TypeOK ==
    /\ pc \in {"ready", "issued", "done"}
    /\ op \in {"none", "add", "subtract", "multiply", "divide", "applyFee",
               "compare", "toDecimalValue", "fromString", "addThenSubtract",
               "Big.divide", "Big.applyFee", "errorHandler",
               "errors.errorHandler", "verifyJwt", "extractIdempotencyHeader",
               "generateMemo", "isValidStellarMemo"}
    /\ op \notin {"errorHandler", "errors.errorHandler"}
        => res.kind \in {"none", "ok", "null", "SyntaxError", "TypeError",
                         "Division by zero", "Invalid decimal format",
                         "[big.js] Invalid number", "[big.js] Division by zero",
                         "Memo ID exceeds 64-bit unsigned integer range"}

\* the third argument of divide is left out of the call
Omitted == -1

\* no concurrent callers
NoCallers == frames = <<>>

\* a value that is undefined
Undefined == "undefined"

\* no error is being handled
NoError == err = Undefined /\ NODE_ENV = Undefined

\* the record of the last generateJwt call, before any call
NotIssued ==
    [payload |-> [sub |-> Undefined], secret |-> Undefined, expiresIn |-> 0,
     iat |-> 0, token |-> <<>>]

\* no token is in use
NoToken == token = <<>> /\ secret = Undefined /\ now = 0 /\ issued = NotIssued

\* no request headers and no memo value are at hand
NoRequest == headers = Undefined /\ memo = <<>>

OthersAtRest == NoCallers /\ NoError /\ NoToken /\ NoRequest

Init ==
    /\ a \in Operands
    /\ b \in Operands
    /\ precision = Omitted
    /\ OthersAtRest
    /\ op = "none"
    /\ res = NoResult
    /\ pc = "ready"

Return(name, outcome) ==
    /\ pc = "ready"
    /\ outcome.kind # "range"
    /\ op' = name
    /\ res' = outcome
    /\ pc' = "done"
    /\ UNCHANGED <<args, others>>

Add == Return("add", add(a, b))

Subtract == Return("subtract", subtract(a, b))

Multiply == Return("multiply", multiply(a, b))

Divide == Return("divide", divide(a, b))

ApplyFee == Return("applyFee", applyFee(a, b))

Compare == Return("compare", compare(a, b))

\* subtract(add(a, b), b): the sum handed back as an operand
addThenSubtract(x, y) ==
    LET sum == add(x, y)
    IN  IF sum.kind # "ok" THEN sum ELSE subtract(sum.str, y)

AddThenSubtract == Return("addThenSubtract", addThenSubtract(a, b))

Next ==
    Add \/ Subtract \/ Multiply \/ Divide \/ ApplyFee \/ Compare \/ AddThenSubtract

Spec == Init /\ [][Next]_vars

\* parsing and validation of one string
InitParse ==
    /\ a \in ParseInputs
    /\ b = <<"0">>
    /\ precision = Omitted
    /\ OthersAtRest
    /\ op = "none"
    /\ res = NoResult
    /\ pc = "ready"

ToDecimalValue ==
    LET d == toDecimalValue(a)
    IN  Return("toDecimalValue",
               IF d.kind = "ok" THEN OkDec(d.value, d.scale)
               ELSE IF d.kind = "range" THEN OutOfRange
               ELSE Throw(d.kind))

FromString == Return("fromString", fromString(a))

NextParse == ToDecimalValue \/ FromString

SpecParse == InitParse /\ [][NextParse]_vars

\* calls whose first operand is surrounded by whitespace
InitTrim ==
    /\ a \in PaddedOperands
    /\ b \in PlainOperands
    /\ precision = Omitted
    /\ OthersAtRest
    /\ op = "none"
    /\ res = NoResult
    /\ pc = "ready"

NextTrim == Next \/ FromString

SpecTrim == InitTrim /\ [][NextTrim]_vars

\* both variants of DecimalUtils on unsigned operands, the first with up to
\* MaxPad + MaxFrac fractional digits
InitBig ==
    /\ a \in PlainOperands \cup FineAmounts
    /\ b \in PlainOperands
    /\ precision = Omitted
    /\ OthersAtRest
    /\ op = "none"
    /\ res = NoResult
    /\ pc = "ready"

\* divide(a, b, precision = 7): the parameter's default when it is left out
BigDivide ==
    Return("Big.divide", Big_divide(a, b, IF precision = Omitted THEN 7 ELSE precision))

BigApplyFee == Return("Big.applyFee", Big_applyFee(a, b))

NextBig == Next \/ BigDivide \/ BigApplyFee

SpecBig == InitBig /\ [][NextBig]_vars

\* divide of both variants called with a third argument, or without one
InitPrecision ==
    /\ a \in PlainOperands
    /\ b \in PlainOperands
    /\ precision \in {Omitted} \cup (0..MaxPrecision)
    /\ OthersAtRest
    /\ op = "none"
    /\ res = NoResult
    /\ pc = "ready"

NextPrecision == Divide \/ BigDivide

SpecPrecision == InitPrecision /\ [][NextPrecision]_vars

----------------------------------------------------------------------------
(* Concurrent callers of DecimalUtils.  A call has its parameters and its    *)
(* constants (decA, decB, ...) in its own activation; the module has no      *)
(* variable outside its functions.  Callers take their steps in any order.   *)

Callers == 1..NumCallers

\* the argument pairs the callers use
CallArguments ==
    {<<x, y>> : x \in {<<"0", ".", "3">>, <<"-", "1", ".", "1">>},
                y \in {<<"3">>, <<"0">>}}

OperationNames ==
    {"add", "subtract", "multiply", "divide", "compare", "fromString", "applyFee"}

\* DecimalUtils[name](x, y)
Run(name, x, y) ==
    CASE name = "add" -> add(x, y)
      [] name = "subtract" -> subtract(x, y)
      [] name = "multiply" -> multiply(x, y)
      [] name = "divide" -> divide(x, y)
      [] name = "compare" -> compare(x, y)
      [] name = "fromString" -> fromString(x)
      [] name = "applyFee" -> applyFee(x, y)

\* one activation record for all calls, in place of one per call
Activation_Shared(c) == 1

\* the activation record that holds the parameters of caller c's call
Activation(c) == c

InitConcurrent ==
    /\ a = <<>>
    /\ b = <<>>
    /\ precision = Omitted
    /\ op = "none"
    /\ res = NoResult
    /\ pc = "ready"
    /\ NoError
    /\ NoToken
    /\ NoRequest
    /\ frames \in [Callers ->
                    {[a |-> arg[1], b |-> arg[2], op |-> "none", x |-> <<>>, y |-> <<>>,
                      res |-> NoResult, pc |-> "ready"] : arg \in CallArguments}]

\* caller c calls DecimalUtils[name](a, b): the arguments are bound to the
\* parameters of the call
Enter(c, name) ==
    /\ frames[c].pc = "ready"
    /\ frames' = [[frames EXCEPT ![c].op = name, ![c].pc = "running"]
                      EXCEPT ![Activation(c)].x = frames[c].a,
                             ![Activation(c)].y = frames[c].b]
    /\ UNCHANGED <<args, op, res, pc, err, NODE_ENV, token, secret, now, issued,
                   headers, memo>>

\* the call of caller c runs to its return or throw
Exit(c) ==
    LET outcome == Run(frames[c].op, frames[Activation(c)].x, frames[Activation(c)].y)
    IN  /\ frames[c].pc = "running"
        /\ outcome.kind # "range"
        /\ frames' = [frames EXCEPT ![c].res = outcome, ![c].pc = "done"]
        /\ UNCHANGED <<args, op, res, pc, err, NODE_ENV, token, secret, now, issued,
                   headers, memo>>

NextConcurrent ==
    \/ \E c \in Callers, name \in OperationNames : Enter(c, name)
    \/ \E c \in Callers : Exit(c)

SpecConcurrent == InitConcurrent /\ [][NextConcurrent]_vars

----------------------------------------------------------------------------
(* The error handler of src/src/utils/error-handler.ts.  An error object is  *)
(* a record of its class and its fields; the classes of core/errors are      *)
(* built as the tests of the repository show them.                           *)

\* the classes an object of class cls is an instance of
Lineage(cls) ==
    CASE cls = "SepProtocolError" -> {"SepProtocolError", "AnchorKitError", "Error"}
      [] cls = "RailError" -> {"RailError", "AnchorKitError", "Error"}
      [] cls = "CustomError" -> {"CustomError", "AnchorKitError", "Error"}
      [] cls = "Error" -> {"Error"}

\* e instanceof cls
InstanceOf(e, cls) == cls \in Lineage(e.class)

\* new SepProtocolError(message, errorCode, sepErrorType)
SepProtocolError(message, errorCode, sepErrorType) ==
    [class |-> "SepProtocolError", message |-> message, statusCode |-> 400,
     errorCode |-> errorCode, sepErrorType |-> sepErrorType,
     railName |-> Undefined, context |-> Undefined]

\* new RailError(message, railName, context)
RailError(message, railName, context) ==
    [class |-> "RailError", message |-> message, statusCode |-> 500,
     errorCode |-> "RAIL_ERROR", sepErrorType |-> Undefined,
     railName |-> railName, context |-> context]

\* new CustomError(message), of a class that extends AnchorKitError
CustomError(message) ==
    [class |-> "CustomError", message |-> message, statusCode |-> 418,
     errorCode |-> "I_AM_A_TEAPOT", sepErrorType |-> Undefined,
     railName |-> Undefined, context |-> Undefined]

\* new Error(message)
PlainError(message) ==
    [class |-> "Error", message |-> message, statusCode |-> 0,
     errorCode |-> Undefined, sepErrorType |-> Undefined,
     railName |-> Undefined, context |-> Undefined]

\* errorHandler with the rail error's own message in the payload
errorHandler_Unmasked(e) ==
    IF InstanceOf(e, "SepProtocolError")
    THEN [status |-> e.statusCode,
          payload |-> IF e.sepErrorType # Undefined
                      THEN [error |-> e.errorCode, message |-> e.message,
                            type |-> e.sepErrorType]
                      ELSE [error |-> e.errorCode, message |-> e.message]]
    ELSE IF InstanceOf(e, "RailError")
    THEN [status |-> e.statusCode,
          payload |-> [error |-> e.errorCode, message |-> e.message]]
    ELSE IF InstanceOf(e, "AnchorKitError")
    THEN [status |-> e.statusCode,
          payload |-> [error |-> e.errorCode, message |-> e.message]]
    ELSE [status |-> 500,
          payload |-> [error |-> "INTERNAL_SERVER_ERROR",
                       message |-> "An internal server error occurred."]]

\* errorHandler(err)
errorHandler(e) ==
    IF InstanceOf(e, "SepProtocolError")
    THEN [status |-> e.statusCode,
          payload |-> IF e.sepErrorType # Undefined
                      THEN [error |-> e.errorCode, message |-> e.message,
                            type |-> e.sepErrorType]
                      ELSE [error |-> e.errorCode, message |-> e.message]]
    ELSE IF InstanceOf(e, "RailError")
    THEN [status |-> e.statusCode,
          payload |-> [error |-> e.errorCode, message |-> "A gateway error occurred."]]
    ELSE IF InstanceOf(e, "AnchorKitError")
    THEN [status |-> e.statusCode,
          payload |-> [error |-> e.errorCode, message |-> e.message]]
    ELSE [status |-> 500,
          payload |-> [error |-> "INTERNAL_SERVER_ERROR",
                       message |-> "An internal server error occurred."]]

\* messages, rail names and contexts of the errors handed to the handlers
Messages ==
    {"Sensitive rail failure", "Payment gateway failed", "Invalid asset",
     "Short and stout"}

RailNames == {Undefined, "stellar", "ACH"}

Contexts == {Undefined, "network down", "timeout"}

RailErrors ==
    {RailError(m, r, c) : m \in Messages, r \in RailNames, c \in Contexts}

ThrownErrors ==
    RailErrors
      \cup {SepProtocolError(m, c, t) : m \in Messages,
                c \in {"ASSET_NOT_FOUND", "INVALID_REQUEST"},
                t \in {Undefined, "invalid_request"}}
      \cup {CustomError(m) : m \in Messages}
      \cup {PlainError(m) : m \in Messages}

InitHandler ==
    /\ a = <<>>
    /\ b = <<>>
    /\ precision = Omitted
    /\ NoCallers
    /\ NoToken
    /\ NoRequest
    /\ err \in ThrownErrors
    /\ NODE_ENV = Undefined
    /\ op = "none"
    /\ res = NoResult
    /\ pc = "ready"

\* the server hands the thrown error to errorHandler
HandleError ==
    /\ pc = "ready"
    /\ op' = "errorHandler"
    /\ res' = errorHandler(err)
    /\ pc' = "done"
    /\ UNCHANGED <<args, others>>

NextHandler == HandleError

SpecHandler == InitHandler /\ [][NextHandler]_vars

----------------------------------------------------------------------------
(* The typed error handler of errors/errorHandler (src/unnamed/part_006,     *)
(* lines 243-487).  An AnchorError is a record of its class and its fields;  *)
(* originalError is given by its message.                                    *)

ErrorType ==
    {"SEP_PROTOCOL", "RAIL_ERROR", "VALIDATION_ERROR", "DATABASE_ERROR",
     "NETWORK_ERROR", "UNKNOWN"}

\* new AnchorError(message, type, statusCode, code, details)
AnchorError(class, message, type, statusCode, code, details, originalError) ==
    [class |-> class, message |-> message, type |-> type,
     statusCode |-> statusCode, code |-> code, details |-> details,
     originalError |-> originalError]

\* the subclasses of AnchorError, by their constructors
Errors_SepProtocolError(message, code, details) ==
    AnchorError("SepProtocolError", message, "SEP_PROTOCOL", 400, code, details, Undefined)

Errors_RailError(message, originalError) ==
    AnchorError("RailError", message, "RAIL_ERROR", 502, "RAIL_ERROR", Undefined,
                originalError)

ValidationError(message, field) ==
    AnchorError("ValidationError", message, "VALIDATION_ERROR", 400,
                "VALIDATION_ERROR", [field |-> field], Undefined)

DatabaseError(message, originalError) ==
    AnchorError("DatabaseError", message, "DATABASE_ERROR", 500, "DATABASE_ERROR",
                Undefined, originalError)

NetworkError(message, originalError) ==
    AnchorError("NetworkError", message, "NETWORK_ERROR", 503, "NETWORK_ERROR",
                Undefined, originalError)

\* handleAnchorError(error), with env the value of process.env.NODE_ENV
handleAnchorError(error, env) ==
    LET isProduction == env = "production"
        isRailError == error.class = "RailError"
        detailed == [type |-> error.type, message |-> error.message,
                     code |-> error.code, details |-> error.details]
        plain == [type |-> error.type, message |-> error.message, code |-> error.code]
        original == [type |-> error.type, message |-> error.message,
                     code |-> error.code,
                     details |-> [originalError |-> error.originalError]]
    IN  CASE error.type = "SEP_PROTOCOL" ->
                [statusCode |-> error.statusCode, response |-> [error |-> detailed]]
          [] error.type = "RAIL_ERROR" ->
                IF isProduction /\ isRailError
                THEN [statusCode |-> error.statusCode,
                      response |-> [error |->
                          [type |-> error.type,
                           message |-> "Payment rail service unavailable",
                           code |-> error.code]]]
                ELSE [statusCode |-> error.statusCode,
                      response |-> [error |->
                          IF isRailError /\ ~isProduction THEN original ELSE plain]]
          [] error.type = "VALIDATION_ERROR" ->
                [statusCode |-> error.statusCode, response |-> [error |-> detailed]]
          [] error.type \in {"DATABASE_ERROR", "NETWORK_ERROR"} ->
                IF isProduction
                THEN [statusCode |-> error.statusCode,
                      response |-> [error |->
                          [type |-> error.type,
                           message |-> "Service temporarily unavailable"]]]
                ELSE [statusCode |-> error.statusCode,
                      response |-> [error |->
                          IF error.originalError # Undefined THEN original ELSE plain]]
          [] OTHER ->
                [statusCode |-> 500,
                 response |-> [error |->
                     [type |-> "UNKNOWN",
                      message |-> "An internal server error occurred"]]]

\* errorHandler(error) of errors/errorHandler
Errors_errorHandler(error, env) ==
    IF error.class # "Error" THEN handleAnchorError(error, env)
    ELSE [statusCode |-> 500,
          response |-> [error |->
              [type |-> "UNKNOWN", message |-> "An internal server error occurred"]]]

OriginalErrors == {Undefined, "Connection failed"}

\* the errors thrown to the typed handler: objects of the subclasses and
\* objects constructed from AnchorError itself with any type
AnchorErrors ==
    {AnchorError("AnchorError", m, t, 500, Undefined, Undefined, Undefined) :
        m \in Messages, t \in ErrorType}
      \cup {Errors_SepProtocolError(m, "INVALID_TX", Undefined) : m \in Messages}
      \cup {Errors_RailError(m, o) : m \in Messages, o \in OriginalErrors}
      \cup {ValidationError(m, f) : m \in Messages, f \in {Undefined, "email"}}
      \cup {DatabaseError(m, o) : m \in Messages, o \in OriginalErrors}
      \cup {NetworkError(m, o) : m \in Messages, o \in OriginalErrors}
      \cup {AnchorError("Error", m, Undefined, 0, Undefined, Undefined, Undefined) :
                m \in Messages}

InitTyped ==
    /\ a = <<>>
    /\ b = <<>>
    /\ precision = Omitted
    /\ NoCallers
    /\ NoToken
    /\ NoRequest
    /\ err \in AnchorErrors
    /\ NODE_ENV \in {"production", "development", Undefined}
    /\ op = "none"
    /\ res = NoResult
    /\ pc = "ready"

\* the server hands the thrown error to the typed errorHandler
HandleTyped ==
    /\ pc = "ready"
    /\ op' = "errors.errorHandler"
    /\ res' = Errors_errorHandler(err, NODE_ENV)
    /\ pc' = "done"
    /\ UNCHANGED <<args, others>>

NextTyped == HandleTyped

SpecTyped == InitTyped /\ [][NextTyped]_vars

----------------------------------------------------------------------------
(* JSON web tokens (src/src/utils/crypto.ts).  A token is the sequence of   *)
(* its dot-separated parts, which is what token.split('.') gives: base64    *)
(* and hexadecimal text hold no dot.  A part is a record that says how its  *)
(* text was made.  HMAC-SHA256 is taken as collision-free: two signatures   *)
(* are the same text exactly when data and key are the same.                *)

\* btoa(JSON.stringify(object))
Base64(object) == [base64 |-> object]

\* a part that is not the base64 text of a JSON object; '' is the empty part
Text(t) == [text |-> t]

\* signWithHmac(data, secret), data = `${headerBase64}.${payloadBase64}`
signWithHmac(data, key) == [hmac |-> data, key |-> key]

\* the value null
Null == [null |-> TRUE]

\* generateJwt(payload, secret, expiresIn) at time t: the three parts of
\* `${headerBase64}.${payloadBase64}.${signature}`
generateJwt(payload, key, expiresIn, t) ==
    LET header == [alg |-> "HS256", typ |-> "JWT"]
        tokenPayload == [sub |-> payload.sub, iat |-> t, exp |-> t + expiresIn]
        headerBase64 == Base64(header)
        payloadBase64 == Base64(tokenPayload)
    IN  <<headerBase64, payloadBase64,
          signWithHmac(<<headerBase64, payloadBase64>>, key)>>

\* !part, for a part of token.split('.'): it is undefined or the empty string
Missing(parts, i) == i > Len(parts) \/ parts[i] = Text("")

\* JSON.parse(atob(part)) throws
Unparsable(part) == "base64" \notin DOMAIN part

\* payload.exp && payload.exp < now
Expired(payload, t) ==
    /\ "exp" \in DOMAIN payload
    /\ payload.exp # 0
    /\ payload.exp < t

\* verifyJwt without the comparison of the signature
verifyJwt_Unsigned(parts, key, t) ==
    IF Missing(parts, 1) \/ Missing(parts, 2) \/ Missing(parts, 3) THEN Null
    ELSE IF Unparsable(parts[2]) THEN Null
    ELSE IF Expired(parts[2].base64, t) THEN Null
    ELSE parts[2].base64

\* verifyJwt(token, secret) at time t
verifyJwt(parts, key, t) ==
    IF Missing(parts, 1) \/ Missing(parts, 2) \/ Missing(parts, 3) THEN Null
    ELSE IF parts[3] # signWithHmac(<<parts[1], parts[2]>>, key) THEN Null
    ELSE IF Unparsable(parts[2]) THEN Null
    ELSE IF Expired(parts[2].base64, t) THEN Null
    ELSE parts[2].base64

Secrets == {"test-secret-key-12345", "wrong-secret"}

Payloads == {[sub |-> "user-123"], [sub |-> "user-456"]}

\* parts someone who holds a token can put in place of its parts
ForgedParts ==
    {Text(""), Text("invalid"), Base64([alg |-> "none", typ |-> "JWT"])}
      \cup {Base64([sub |-> "user-456", iat |-> 0, exp |-> MaxTime + 1])}

InitJwt ==
    /\ a = <<>>
    /\ b = <<>>
    /\ precision = Omitted
    /\ NoCallers
    /\ NoError
    /\ NoRequest
    /\ token = <<>>
    /\ secret = Undefined
    /\ now \in 1..2
    /\ issued = NotIssued
    /\ op = "none"
    /\ res = NoResult
    /\ pc = "ready"

\* generateJwt(payload, secret, expiresIn) is called and its token handed out
GenerateJwt ==
    \E payload \in Payloads, key \in Secrets, expiresIn \in (-MaxTime)..MaxTime :
        /\ pc = "ready"
        /\ token' = generateJwt(payload, key, expiresIn, now)
        /\ issued' = [payload |-> payload, secret |-> key, expiresIn |-> expiresIn,
                      iat |-> now, token |-> token']
        /\ pc' = "issued"
        /\ UNCHANGED <<args, op, res, frames, err, NODE_ENV, secret, now, headers, memo>>

\* a second passes
Tick ==
    /\ pc \in {"ready", "issued"}
    /\ now < MaxTime
    /\ now' = now + 1
    /\ UNCHANGED <<args, op, res, pc, frames, err, NODE_ENV, token, secret, issued,
                   headers, memo>>

\* the holder of the token replaces one of its parts
ReplacePart ==
    \E i \in 1..3, part \in ForgedParts :
        /\ pc = "issued"
        /\ token = issued.token
        /\ token' = [token EXCEPT ![i] = part]
        /\ UNCHANGED <<args, op, res, pc, frames, err, NODE_ENV, secret, now, issued,
                       headers, memo>>

\* the holder of the token signs its header and payload with a secret of
\* their own choice
Resign ==
    \E key \in Secrets :
        /\ pc = "issued"
        /\ Len(token) = 3
        /\ token' = [token EXCEPT ![3] = signWithHmac(<<token[1], token[2]>>, key)]
        /\ token' # token
        /\ UNCHANGED <<args, op, res, pc, frames, err, NODE_ENV, secret, now, issued,
                       headers, memo>>

\* the holder of the token cuts off its last part
DropPart ==
    /\ pc = "issued"
    /\ Len(token) = 3
    /\ token' = SubSeq(token, 1, 2)
    /\ UNCHANGED <<args, op, res, pc, frames, err, NODE_ENV, secret, now, issued,
                   headers, memo>>

\* verifyJwt(token, secret) is called; its promise resolves with the payload
\* or null, every exception being caught (lines 49, 71-73)
VerifyJwt ==
    \E key \in Secrets :
        /\ pc = "issued"
        /\ secret' = key
        /\ op' = "verifyJwt"
        /\ res' = [kind |-> "ok", value |-> verifyJwt(token, key, now)]
        /\ pc' = "done"
        /\ UNCHANGED <<args, frames, err, NODE_ENV, token, now, issued, headers, memo>>

NextJwt == GenerateJwt \/ Tick \/ ReplacePart \/ Resign \/ DropPart \/ VerifyJwt

SpecJwt == InitJwt /\ [][NextJwt]_vars

----------------------------------------------------------------------------
(* Idempotency headers (src/src/utils/idempotency.ts).  The argument is      *)
(* undefined, null, a Headers object or a plain object.  Of a plain object   *)
(* the model keeps the properties 'idempotency-key' (lower) and              *)
(* 'Idempotency-Key' (upper), each a sequence of no or one string; a Headers *)
(* object keeps its values under lower-case names, without their leading and *)
(* trailing whitespace, as Headers.set stores them.                          *)

\* the value returned is null
OkNull == [kind |-> "null", str |-> <<>>, num |-> 0, scale |-> 0]

\* a plain object with the two properties
PlainObject(lower, upper) == [kind |-> "object", lower |-> lower, upper |-> upper]

\* new Headers() without any header
EmptyHeaders == [kind |-> "Headers", lower |-> <<>>, upper |-> <<>>]

\* h = new Headers(); h.set(name, v), for name in either spelling
HeadersSet(v) == [kind |-> "Headers", lower |-> <<Trim(v)>>, upper |-> <<>>]

\* x is a non-empty string: what `x || ...` keeps
Truthy(x) == x # <<>> /\ x[1] # <<>>

\* extractIdempotencyHeader(headers)
extractIdempotencyHeader(h) ==
    IF h.kind \in {"undefined", "null"} THEN Throw("TypeError")
    ELSE LET idempotencyKey ==
                 IF h.kind = "Headers" THEN h.lower
                 ELSE IF Truthy(h.lower) THEN h.lower ELSE h.upper
         IN  IF Truthy(idempotencyKey) THEN Ok(idempotencyKey[1]) ELSE OkNull

\* header values: empty, blank, a key, a key within blanks
HeaderValues ==
    {<<>>, <<" ">>, <<" ", " ">>, <<"a">>, <<"a", "1">>, <<" ", "a", " ">>,
     <<" ", "1">>}

\* no or one header value
OptionalValues == {<<>>} \cup {<<v>> : v \in HeaderValues}

RequestHeaders ==
    {[kind |-> k, lower |-> <<>>, upper |-> <<>>] : k \in {"undefined", "null"}}
      \cup {EmptyHeaders}
      \cup {HeadersSet(v) : v \in HeaderValues}
      \cup {PlainObject(l, u) : l \in OptionalValues, u \in OptionalValues}

InitHeaders ==
    /\ a = <<>>
    /\ b = <<>>
    /\ precision = Omitted
    /\ NoCallers
    /\ NoError
    /\ NoToken
    /\ headers \in RequestHeaders
    /\ memo = <<>>
    /\ op = "none"
    /\ res = NoResult
    /\ pc = "ready"

ExtractIdempotencyHeader ==
    Return("extractIdempotencyHeader", extractIdempotencyHeader(headers))

NextHeaders == ExtractIdempotencyHeader

SpecHeaders == InitHeaders /\ [][NextHeaders]_vars

----------------------------------------------------------------------------
(* Memo ids: generateMemo(value, 'id') of src/unnamed/part_004 and           *)
(* isValidStellarMemo(memo, 'id') of src/unnamed/part_005.  The 64-bit limit *)
(* is beyond the integers the model computes with, so a bigint is compared   *)
(* with it digit by digit.                                                   *)

\* 18446744073709551615n
MaxUint64 ==
    <<"1", "8", "4", "4", "6", "7", "4", "4", "0", "7", "3">>
      \o <<"7", "0", "9", "5", "5", "1", "6", "1", "5">>

RECURSIVE StripLeadingZeros(_)
StripLeadingZeros(s) ==
    IF Len(s) > 0 /\ s[1] = "0" THEN StripLeadingZeros(Tail(s)) ELSE s

\* x > y for digit strings without leading zeros
RECURSIVE DigitsGreater(_, _)
DigitsGreater(x, y) ==
    IF Len(x) # Len(y) THEN Len(x) > Len(y)
    ELSE IF x = <<>> THEN FALSE
    ELSE IF Head(x) # Head(y) THEN DigitVal(Head(x)) > DigitVal(Head(y))
    ELSE DigitsGreater(Tail(x), Tail(y))

\* BigInt(s) for decimal text: whitespace around it is ignored, '' is 0n, a
\* sign may precede the digits; neg and digits give the value
BigIntText(s) ==
    LET t == Trim(s)
        signed == Len(t) > 0 /\ t[1] \in {"-", "+"}
        digits == IF signed THEN Tail(t) ELSE t
    IN  [throws |-> t # <<>> /\ (digits = <<>> \/ ~AllDigits(digits)),
         neg |-> signed /\ t[1] = "-" /\ StripLeadingZeros(digits) # <<>>,
         digits |-> StripLeadingZeros(digits)]

\* BigInt(s) > 18446744073709551615n
ExceedsUint64(s) ==
    ~BigIntText(s).neg /\ DigitsGreater(BigIntText(s).digits, MaxUint64)

\* generateMemo(v, 'id'): the memo's value, or the exception
generateMemo(v) ==
    IF BigIntText(v).throws THEN Throw("SyntaxError")
    ELSE IF ExceedsUint64(v)
    THEN Throw("Memo ID exceeds 64-bit unsigned integer range")
    ELSE Ok(v)

\* isValidStellarMemo(m, 'id')
isValidStellarMemo(m) == Len(m) >= 1 /\ AllDigits(m) /\ ~ExceedsUint64(m)

\* memo values: the limit, its successor, and short texts
MemoValues ==
    {MaxUint64, <<"1", "8", "4", "4", "6", "7", "4", "4", "0", "7", "3", "7", "0", "9", "5", "5", "1", "6", "1", "6">>,
     <<"0">> \o MaxUint64, <<"-">> \o MaxUint64, <<"9">> \o MaxUint64}
      \cup StringsUpTo({"0", "1", "9", "-", " ", "a"}, MaxMemoLen)

InitMemo ==
    /\ a = <<>>
    /\ b = <<>>
    /\ precision = Omitted
    /\ NoCallers
    /\ NoError
    /\ NoToken
    /\ headers = Undefined
    /\ memo \in MemoValues
    /\ op = "none"
    /\ res = NoResult
    /\ pc = "ready"

GenerateMemo == Return("generateMemo", generateMemo(memo))

IsValidStellarMemo ==
    Return("isValidStellarMemo", OkNum(IF isValidStellarMemo(memo) THEN 1 ELSE 0))

NextMemo == GenerateMemo \/ IsValidStellarMemo

SpecMemo == InitMemo /\ [][NextMemo]_vars

----------------------------------------------------------------------------
(* What a string denotes, read off its characters independently of the code *)

Unsigned(s) == IF Len(s) > 0 /\ s[1] = "-" THEN Tail(s) ELSE s

IsNegative(s) == Len(s) > 0 /\ s[1] = "-"

HasPoint(s) == IndexOf(s, ".") # -1

\* the digits before the point
WholeDigits(s) ==
    LET t == Unsigned(s)
    IN  IF HasPoint(t) THEN SubSeq(t, 1, IndexOf(t, ".")) ELSE t

\* the digits after the point
FracDigits(s) ==
    LET t == Unsigned(s)
    IN  IF HasPoint(t) THEN SubSeq(t, IndexOf(t, ".") + 2, Len(t)) ELSE <<>>

\* optional '-', one or more whole digits, optionally '.' and one or more
\* fractional digits
IsValidDecimal(s) ==
    /\ Len(WholeDigits(s)) >= 1
    /\ AllDigits(WholeDigits(s))
    /\ AllDigits(FracDigits(s))
    /\ HasPoint(s) => Len(FracDigits(s)) >= 1

\* number of fractional digits kept: at most 7
WrittenScale(s) == Min(Len(FracDigits(s)), 7)

\* the digits of the written value at WrittenScale, the point removed
WrittenDigits(s) == WholeDigits(s) \o SubSeq(FracDigits(s), 1, WrittenScale(s))

\* the written value fits the explored range
Representable(s) == IsValidDecimal(s) /\ DigitsToNat(WrittenDigits(s), 0) # -1

\* the integer WrittenDigits spells, with the sign of the string
WrittenMagnitude(s) ==
    IF IsNegative(s) THEN -DigitsToNat(WrittenDigits(s), 0)
    ELSE DigitsToNat(WrittenDigits(s), 0)

\* the canonical string of m / 10^sc: one leading '-' when negative, the whole
\* part, and the fractional digits without trailing zeros, if any remain
Canonical(m, sc) ==
    LET whole == NatToString(Abs(m) \div Pow10(sc))
        frac == StripTrailingZeros(PadStart(NatToString(Abs(m) % Pow10(sc)), sc, "0"))
        sign == IF m < 0 THEN <<"-">> ELSE <<>>
    IN  IF frac = <<>> THEN sign \o whole ELSE sign \o whole \o <<".">> \o frac

\* both operands are valid and their written values can be brought to the
\* common scale within the explored range
BothRepresentable(x, y) ==
    /\ Representable(x)
    /\ Representable(y)
    /\ FitsPow10(WrittenMagnitude(x), 7 - WrittenScale(x))
    /\ FitsPow10(WrittenMagnitude(y), 7 - WrittenScale(y))

CommonScale(x, y) == Max(WrittenScale(x), WrittenScale(y))

\* the written value of x in units of 10^-CommonScale(x, y)
AtCommonScale(x, y) == WrittenMagnitude(x) * Pow10(CommonScale(x, y) - WrittenScale(x))

Returned(name) == pc = "done" /\ op = name

----------------------------------------------------------------------------
(* Parsing *)

\* C1: a valid string with at most 7 fractional digits parses to scale = its
\* number of fractional digits and magnitude = its digits with the point
\* removed, carrying the sign of the string.
C1_ParseExact ==
    (Returned("toDecimalValue") /\ Representable(a) /\ Len(FracDigits(a)) <= 7)
        => res = OkDec(WrittenMagnitude(a), Len(FracDigits(a)))

\* C2: a valid string with more than 7 fractional digits parses to scale 7 and
\* to the magnitude of the same string cut after its 7th fractional digit.
C2_ParseTruncates ==
    (Returned("toDecimalValue") /\ Representable(a) /\ Len(FracDigits(a)) > 7)
        => res = OkDec(WrittenMagnitude(a), 7)

----------------------------------------------------------------------------
(* Addition and subtraction *)

\* C3: for valid a and b, add(a, b) is the canonical string of the exact sum
\* of the two written values, at the larger of the two scales.
C3_AddExact ==
    (Returned("add") /\ BothRepresentable(a, b))
        => res = Ok(Canonical(AtCommonScale(a, b) + AtCommonScale(b, a),
                              CommonScale(a, b)))

\* C4: for valid a and b, subtract(a, b) is the canonical string of the exact
\* difference; a negative difference has exactly one '-', in front of the
\* whole part, and unsigned fractional digits.
C4_SubtractExact ==
    (Returned("subtract") /\ BothRepresentable(a, b))
        => res = Ok(Canonical(AtCommonScale(a, b) - AtCommonScale(b, a),
                              CommonScale(a, b)))

----------------------------------------------------------------------------
(* Division *)

\* the dividend and the divisor of value(x) / value(y) in units of 10^-7:
\* dividend = |magnitude(x)| * 10^(scale(y) + 7), divisor = |magnitude(y)| * 10^scale(x)
QuotientFits(x, y) ==
    /\ BothRepresentable(x, y)
    /\ WrittenMagnitude(y) # 0
    /\ FitsPow10(WrittenMagnitude(x), WrittenScale(y) + 7)

\* |value(x) / value(y)| truncated to 7 fractional digits, in units of 10^-7
TruncatedQuotient(x, y) ==
    (Abs(WrittenMagnitude(x)) * Pow10(WrittenScale(y) + 7))
        \div (Abs(WrittenMagnitude(y)) * Pow10(WrittenScale(x)))

QuotientIsNegative(x, y) ==
    (WrittenMagnitude(x) < 0) # (WrittenMagnitude(y) < 0)

\* C5: for valid a and non-zero b, divide(a, b) is value(a) / value(b) at 7
\* fractional digits, the scales of both operands accounted for.
C5_DivideScales ==
    (Returned("divide") /\ QuotientFits(a, b))
        => res = Ok(Canonical(IF QuotientIsNegative(a, b)
                              THEN -TruncatedQuotient(a, b)
                              ELSE TruncatedQuotient(a, b), 7))

\* C6: for valid a and non-zero b, the value r that divide returns satisfies
\* |r| <= |a/b| and |a/b| - |r| < 10^-7: in units of 10^-7, |r| is the integer
\* part of |a/b|.
C6_DivideTruncates ==
    (Returned("divide") /\ QuotientFits(a, b))
        => /\ res.kind = "ok"
           /\ Representable(res.str)
           /\ Len(FracDigits(res.str)) <= 7
           /\ Abs(WrittenMagnitude(res.str)) * Pow10(7 - WrittenScale(res.str))
                = TruncatedQuotient(a, b)

\* C7: for valid operands, divide fails with 'Division by zero' exactly when
\* the divisor denotes zero.
C7_DivisionByZeroIff ==
    (Returned("divide") /\ Representable(a) /\ Representable(b))
        => (res.kind = "Division by zero" <=> WrittenMagnitude(b) = 0)

----------------------------------------------------------------------------
(* Errors *)

Arithmetic == {"add", "subtract", "multiply", "divide", "compare", "applyFee"}

\* C8: an arithmetic operation given an operand outside the decimal grammar
\* fails with 'Invalid decimal format', and with nothing else.
C8_MalformedOperandRejected ==
    (pc = "done" /\ op \in Arithmetic /\ (~IsValidDecimal(a) \/ ~IsValidDecimal(b)))
        => res.kind = "Invalid decimal format"

CountOf(s, c) == Cardinality({i \in 1..Len(s) : s[i] = c})

\* more than one decimal point, or a character that is neither a digit, nor
\* the one '.', nor a leading '-'
HasForbiddenText(s) ==
    \/ CountOf(s, ".") > 1
    \/ \E i \in 1..Len(s) :
          /\ ~IsDigit(s[i])
          /\ s[i] # "."
          /\ ~(i = 1 /\ s[i] = "-")

\* C9 as stated: fromString fails with 'Invalid decimal format' for '', 'abc',
\* '1.2.3', '.', '-' and for every string with more than one decimal point or
\* a character other than digits, a leading '-' and one '.'.
C9_RejectsForbiddenText ==
    (Returned("fromString") /\ (a \in Malformed \/ HasForbiddenText(a)))
        => res.kind = "Invalid decimal format"

\* C9 amended: the same, for the string left after surrounding whitespace is
\* trimmed.
C9_RejectsForbiddenTrimmedText ==
    (Returned("fromString") /\ (Trim(a) \in Malformed \/ HasForbiddenText(Trim(a))))
        => res.kind = "Invalid decimal format"

\* fromString has rejected a string with two decimal points
C9_Witness ==
    /\ Returned("fromString")
    /\ CountOf(Trim(a), ".") > 1
    /\ res.kind = "Invalid decimal format"

\* a decimal point with no digit before it or no digit after it
LacksDigitBesidePoint(s) ==
    /\ HasPoint(s)
    /\ (WholeDigits(s) = <<>> \/ FracDigits(s) = <<>>)

\* C10: fromString rejects a string with no digit before the point ('.5',
\* '-.5') and a string with no digit after the point ('5.', '-5.').
C10_DigitsOnBothSides ==
    (Returned("fromString") /\ LacksDigitBesidePoint(a))
        => res.kind = "Invalid decimal format"

----------------------------------------------------------------------------
(* Whitespace *)

\* the outcome of the named two-operand call on x and y
CallOf(name, x, y) ==
    CASE name = "add" -> add(x, y)
      [] name = "subtract" -> subtract(x, y)
      [] name = "multiply" -> multiply(x, y)
      [] name = "divide" -> divide(x, y)
      [] name = "compare" -> compare(x, y)

\* C11: whitespace around an operand has no effect: fromString returns the
\* trimmed text, and add, subtract, multiply, divide and compare give for a
\* padded valid operand the result they give for the trimmed one.
C11_WhitespaceIgnored ==
    /\ (Returned("fromString") /\ IsValidDecimal(Trim(a))) => res = Ok(Trim(a))
    /\ (/\ pc = "done"
        /\ op \in {"add", "subtract", "multiply", "divide", "compare"}
        /\ IsValidDecimal(Trim(a))
        /\ IsValidDecimal(Trim(b))
        /\ CallOf(op, Trim(a), Trim(b)).kind # "range")
           => res = CallOf(op, Trim(a), Trim(b))

----------------------------------------------------------------------------
(* Canonical output *)

\* s has no fractional zero at its end, no bare '.' at its end
EndsCanonically(s) ==
    /\ Len(s) > 0
    /\ s[Len(s)] # "."
    /\ HasPoint(s) => s[Len(s)] # "0"

\* C12: every string returned by add, subtract, multiply, divide and applyFee
\* (in either variant) never ends in a fractional zero nor in a bare '.'; a
\* whole-number result therefore has no decimal point.
C12_CanonicalOutput ==
    (/\ pc = "done"
     /\ op \in {"add", "subtract", "multiply", "divide", "applyFee",
                "Big.divide", "Big.applyFee"}
     /\ res.kind = "ok")
        => EndsCanonically(res.str)

\* the same for the scaled-integer variant alone
ScaledIntegerOutputCanonical ==
    (/\ pc = "done"
     /\ op \in {"add", "subtract", "multiply", "divide", "applyFee"}
     /\ res.kind = "ok")
        => EndsCanonically(res.str)

----------------------------------------------------------------------------
(* Comparison *)

\* C13: compare depends on the written values only: -1 when value(a) <
\* value(b), 1 when value(a) > value(b), 0 when they are equal, however the
\* two strings are written.
C13_CompareByValue ==
    (Returned("compare") /\ BothRepresentable(a, b))
        => res = OkNum(IF AtCommonScale(a, b) < AtCommonScale(b, a) THEN -1
                       ELSE IF AtCommonScale(a, b) > AtCommonScale(b, a) THEN 1
                       ELSE 0)

\* C14: for valid strings compare returns one of -1, 0, 1 and never throws,
\* and compare(a, a) = 0.
C14_CompareReflexive ==
    (Returned("compare") /\ IsValidDecimal(a) /\ IsValidDecimal(b))
        => /\ res.kind = "ok"
           /\ res.num \in {-1, 0, 1}
           /\ a = b => res.num = 0

\* compare has returned 0 for a negative string with a fraction and itself
C14_Witness ==
    /\ Returned("compare")
    /\ a = b
    /\ IsValidDecimal(a)
    /\ IsNegative(a)
    /\ HasPoint(a)
    /\ res = OkNum(0)

----------------------------------------------------------------------------
(* Multiplication *)

\* C15: for valid a and b, multiply(a, b) is the canonical string of the exact
\* product: magnitude(a) * magnitude(b) at scale(a) + scale(b).
C15_MultiplyExact ==
    (/\ Returned("multiply")
     /\ BothRepresentable(a, b)
     /\ FitsMul(WrittenMagnitude(a), WrittenMagnitude(b))
     /\ WrittenScale(a) + WrittenScale(b) <= 9)
        => res = Ok(Canonical(WrittenMagnitude(a) * WrittenMagnitude(b),
                              WrittenScale(a) + WrittenScale(b)))

Zero == <<"0">>

\* C16: for every valid a, multiply(a, '0') and multiply('0', a) are exactly
\* the string '0'.
C16_MultiplyByZero ==
    (/\ Returned("multiply")
     /\ IsValidDecimal(a)
     /\ IsValidDecimal(b)
     /\ (a = Zero \/ b = Zero))
        => res = Ok(Zero)

\* multiply has returned '0' for a negative operand with a fraction and '0'
C16_Witness ==
    /\ Returned("multiply")
    /\ b = Zero
    /\ IsValidDecimal(a)
    /\ IsNegative(a)
    /\ HasPoint(a)
    /\ WrittenMagnitude(a) # 0
    /\ res = Ok(Zero)

----------------------------------------------------------------------------
(* Algebra of addition *)

\* C17: for valid a and b, add(a, b) and add(b, a) are the same string.
C17_AddCommutes ==
    (Returned("add") /\ IsValidDecimal(a) /\ IsValidDecimal(b))
        => res = add(b, a)

\* add has returned for two different operands of different scales
C17_Witness ==
    /\ Returned("add")
    /\ IsValidDecimal(a)
    /\ IsValidDecimal(b)
    /\ WrittenScale(a) # WrittenScale(b)
    /\ WrittenMagnitude(a) # 0
    /\ WrittenMagnitude(b) # 0
    /\ res.kind = "ok"

\* C18: for valid a and b, subtract(add(a, b), b) is the canonical form of a.
C18_AddSubtractRoundTrip ==
    (Returned("addThenSubtract") /\ BothRepresentable(a, b))
        => res = Ok(Canonical(WrittenMagnitude(a), WrittenScale(a)))

----------------------------------------------------------------------------
(* Fees *)

NonNegative(s) == IsValidDecimal(s) /\ ~IsNegative(s)

\* the fee amount * feePercent / 100 is within the explored range
FeeFits(x, y) ==
    /\ BothRepresentable(x, y)
    /\ NonNegative(x)
    /\ NonNegative(y)
    /\ FitsMul(WrittenMagnitude(x), WrittenMagnitude(y))
    /\ FitsPow10(WrittenMagnitude(x) * WrittenMagnitude(y), 7)

\* amount * feePercent / 100 truncated to 7 fractional digits, in units of 10^-7
TruncatedFee(x, y) ==
    (WrittenMagnitude(x) * WrittenMagnitude(y) * Pow10(7))
        \div Pow10(WrittenScale(x) + WrittenScale(y) + 2)

\* C19: for valid non-negative amount and feePercent, applyFee of the
\* scaled-integer variant is amount * feePercent / 100, truncated toward zero
\* at 7 fractional digits, in canonical form.
C19_FeeAmount ==
    (Returned("applyFee") /\ FeeFits(a, b))
        => res = Ok(Canonical(TruncatedFee(a, b), 7))

\* amount * (1 + feePercent / 100) in units of 10^-(scale(x) + scale(y) + 2)
TotalMagnitude(x, y) ==
    WrittenMagnitude(x) * (Pow10(WrittenScale(y) + 2) + WrittenMagnitude(y))

TotalScale(x, y) == WrittenScale(x) + WrittenScale(y) + 2

TotalFits(x, y) ==
    /\ BothRepresentable(x, y)
    /\ NonNegative(x)
    /\ NonNegative(y)
    /\ Len(FracDigits(x)) <= 7
    /\ Len(FracDigits(y)) <= 7
    /\ FitsMul(WrittenMagnitude(x), Pow10(WrittenScale(y) + 2) + WrittenMagnitude(y))
    /\ TotalScale(x, y) <= 7 => FitsPow10(TotalMagnitude(x, y), 7 - TotalScale(x, y))

\* the total truncated to 7 fractional digits, in units of 10^-7
TruncatedTotal(x, y) ==
    IF TotalScale(x, y) <= 7
    THEN TotalMagnitude(x, y) * Pow10(7 - TotalScale(x, y))
    ELSE TotalMagnitude(x, y) \div Pow10(TotalScale(x, y) - 7)

\* C20: for valid non-negative amount and feePercent, applyFee of the big.js
\* variant is amount * (1 + feePercent / 100) in canonical form, truncated
\* toward zero at 7 fractional digits when the exact total has more.
C20_FeeTotal ==
    (Returned("Big.applyFee") /\ TotalFits(a, b))
        => res = Ok(Canonical(TruncatedTotal(a, b), 7))

----------------------------------------------------------------------------
(* Target precision of divide *)

\* the precision a call of divide asks for: 7 when the argument is left out
AskedPrecision == IF precision = Omitted THEN 7 ELSE precision

\* |value(x) / value(y)| truncated to p fractional digits, in units of 10^-p
QuotientAt(x, y, p) ==
    (Abs(WrittenMagnitude(x)) * Pow10(WrittenScale(y) + p))
        \div (Abs(WrittenMagnitude(y)) * Pow10(WrittenScale(x)))

\* the string s denotes m / 10^sc
Denotes(s, m, sc) ==
    /\ Representable(s)
    /\ Canonical(WrittenMagnitude(s), WrittenScale(s)) = Canonical(m, sc)

\* C21: for valid unsigned a, non-zero b and precision p (7 when left out),
\* divide of either variant returns the quotient truncated toward zero at p
\* fractional digits, written with at most p fractional digits.
C21_DividePrecision ==
    ((Returned("divide") \/ Returned("Big.divide")) /\ QuotientFits(a, b))
        => /\ res.kind = "ok"
           /\ Len(FracDigits(res.str)) <= AskedPrecision
           /\ Denotes(res.str, QuotientAt(a, b, AskedPrecision), AskedPrecision)

----------------------------------------------------------------------------
(* Concurrency *)

----------------------------------------------------------------------------
(* Error responses *)

\* C23: the response of errorHandler (utils/error-handler) for a RailError
\* has a payload of exactly the keys error and message, its message is the
\* fixed text 'A gateway error occurred.', the error's own message is no
\* part of it, and every RailError, whatever its message, rail name and
\* context, gets the same response.
C23_RailErrorMasked ==
    (Returned("errorHandler") /\ InstanceOf(err, "RailError"))
        => /\ DOMAIN res.payload = {"error", "message"}
           /\ res.payload.message = "A gateway error occurred."
           /\ res.payload.error # err.message
           /\ res.payload.message # err.message
           /\ \A other \in RailErrors : errorHandler(other) = res

\* a RailError with a rail name and a context has been handled
C23_Witness ==
    /\ Returned("errorHandler")
    /\ InstanceOf(err, "RailError")
    /\ err.railName # Undefined
    /\ err.context # Undefined
    /\ res.status = 500

\* C24: in production the typed errorHandler answers an AnchorError of type
\* RAIL_ERROR, DATABASE_ERROR or NETWORK_ERROR, of whatever class, with one
\* of the two fixed messages and without a details field; the error's own
\* message is not in the response.
C24_ProductionMasked ==
    (/\ Returned("errors.errorHandler")
     /\ NODE_ENV = "production"
     /\ err.class # "Error"
     /\ err.type \in {"RAIL_ERROR", "DATABASE_ERROR", "NETWORK_ERROR"})
        => /\ res.response.error.message \in
                  {"Payment rail service unavailable", "Service temporarily unavailable"}
           /\ "details" \notin DOMAIN res.response.error
           /\ res.response.error.message # err.message

----------------------------------------------------------------------------
(* Tokens *)

\* the payload generateJwt put in the issued token: p's fields, iat and exp
IssuedPayload ==
    [sub |-> issued.payload.sub, iat |-> issued.iat,
     exp |-> issued.iat + issued.expiresIn]

\* the token has fewer than three non-empty parts
LacksParts == \E i \in 1..3 : i > Len(token) \/ token[i] = Text("")

C26_NeverAcceptedAfterExpiry ==
    (Returned("verifyJwt") /\ token = issued.token /\ secret = issued.secret)
        => IF issued.iat + issued.expiresIn < now
           THEN res.value = Null
           ELSE res.value = IssuedPayload

----------------------------------------------------------------------------
(* Idempotency key *)

\* the request has no usable idempotency key: no headers, or every value
\* given under the header's name is empty or blank
NoUsableKey ==
    \/ headers.kind \in {"undefined", "null"}
    \/ \A x \in {headers.lower, headers.upper} : x = <<>> \/ Trim(x[1]) = <<>>

\* C27: extractIdempotencyHeader never throws, returns null whenever the
\* request has no usable idempotency key (headers undefined or null, the
\* header absent, empty or blank; Headers object or plain object), and never
\* returns an empty or blank string.
C27_NullWithoutKey ==
    Returned("extractIdempotencyHeader")
        => /\ res.kind \in {"ok", "null"}
           /\ NoUsableKey => res = OkNull
           /\ res.kind = "ok" => Trim(res.str) # <<>>

----------------------------------------------------------------------------
(* Memo ids *)

\* s is the decimal text of an integer in [0, 18446744073709551615]
DenotesUint64(s) ==
    /\ Len(s) >= 1
    /\ AllDigits(s)
    /\ ~DigitsGreater(StripLeadingZeros(s), MaxUint64)

\* C28: generateMemo(value, 'id') returns the memo exactly when value is
\* an integer in the unsigned 64-bit range, and throws for every other
\* value, above the maximum or negative; it accepts exactly the values for
\* which isValidStellarMemo(value, 'id') is true.
C28_MemoIdRange ==
    Returned("generateMemo")
        => /\ (res.kind = "ok") = DenotesUint64(memo)
           /\ (res.kind = "ok") = isValidStellarMemo(memo)

----------------------------------------------------------------------------
(* Scale of a parsed value, and closure of the results *)

C30_ResultsAreOperands ==
    (/\ \E name \in {"add", "subtract", "multiply", "divide", "applyFee"} :
            Returned(name)
     /\ IsValidDecimal(a)
     /\ IsValidDecimal(b)
     /\ res.kind = "ok")
        => IsValidDecimal(res.str)

====
